---- MODULE Spec2Model ----
(***************************************************************************)
(* A model of astrbot_plugin_gemini_patcher (src/main.py).                 *)
(*                                                                         *)
(* The plugin wraps two methods of ProviderGoogleGenAI:                    *)
(*   _prepare_query_config   -> _patched_prepare_query_config  ("augment") *)
(*   _process_content_parts  -> _patched_process_content_parts ("partition")*)
(* and GeminiPatcher.__init__ / GeminiPatcher.terminate install and remove *)
(* the wrappers through two module globals that hold the originals.        *)
(*                                                                         *)
(* Three specifications share the variables:                               *)
(*   SpecPartition  calls of _patched_process_content_parts on responses   *)
(*   SpecAugment    calls of _patched_prepare_query_config                 *)
(*   SpecLifecycle  constructions, terminations and calls through the class*)
(***************************************************************************)
EXTENDS Integers, Sequences, FiniteSets, TLC

VARIABLES
    \* ---- partition ----
    result,          \* the GenerateContentResponse object (mutated in place)
    llm_response,    \* the LLMResponse object
    process_calls,   \* history: one record per call of the patched method
    \* ---- augment ----
    provider_config, \* self.provider_config
    sdk_accepts,     \* does types.ThinkingConfig accept include_thoughts
    prepare_calls,   \* history: one record per call of the patched method
    next_id,         \* identity of the next object the original allocates
    \* ---- lifecycle ----
    cls_prepare,     \* ProviderGoogleGenAI._prepare_query_config
    cls_process,     \* ProviderGoogleGenAI.__dict__["_process_content_parts"]
    orig_prepare,    \* global _original_prepare_query_config
    orig_process,    \* global _original_process_content_parts
    provider_ok,     \* ProviderGoogleGenAI is not None
    live,            \* GeminiPatcher objects constructed and not yet terminated
    ops,             \* history: the operations performed so far
    last_call        \* history: outcome of the last call through the class

partition_vars == <<result, llm_response, process_calls>>
augment_vars   == <<provider_config, sdk_accepts, prepare_calls, next_id>>
lifecycle_vars == <<cls_prepare, cls_process, orig_prepare, orig_process,
                    provider_ok, live, ops, last_call>>
vars == <<partition_vars, augment_vars, lifecycle_vars>>

----------------------------------------------------------------------------
\* Bounds of the model.

\* Longest parts list of a response.
MaxParts == 3
\* Calls of the patched _process_content_parts on one response object.
MaxProcessCalls == 2
\* Calls of the patched _prepare_query_config on one provider.
MaxPrepareCalls == 2
\* Lifecycle operations (constructions, terminations, calls) in one run.
MaxOps == 5

----------------------------------------------------------------------------
\* Python values.

\* The attribute (or dict key) does not exist.
NoAttr == [t |-> "noattr"]
PyNone == [t |-> "None"]
PyBool(b) == [t |-> "bool", v |-> b]
PyStr(s) == [t |-> "str", v |-> s]
PyInt(n) == [t |-> "int", v |-> n]
PyList(s) == [t |-> "list", v |-> s]

\* bool(v) of a Python value.
Truthy(v) ==
    CASE v.t = "None" -> FALSE
      [] v.t = "bool" -> v.v
      [] v.t = "str"  -> v.v # ""
      [] v.t = "int"  -> v.v # 0
      [] v.t = "list" -> v.v # <<>>
      [] OTHER        -> TRUE

\* hasattr(obj, name) for a field modelled as NoAttr when it is missing.
HasAttr(field) == field.t # "noattr"

----------------------------------------------------------------------------
\* Partition: _patched_process_content_parts.

ThoughtValues == {NoAttr, PyNone, PyBool(FALSE), PyBool(TRUE)}
TextValues == {PyNone, PyStr(""), PyStr("a"), PyStr("b")}

\* types.Part: text always exists (None by default); thought is missing in
\* SDK versions that predate it, which is why the code probes it with hasattr.
Part == [thought : ThoughtValues, text : TextValues]

PartLists == UNION {[1..n -> Part] : n \in 0..MaxParts}

\* types.Content: parts is Optional[list[Part]].
Content == {[t |-> "Content", parts |-> p] : p \in {PyNone} \cup {PyList(l) : l \in PartLists}}

\* types.Candidate: content is Optional[Content].
Candidate == {[t |-> "Candidate", content |-> c] : c \in {PyNone} \cup Content}

\* types.GenerateContentResponse: candidates is Optional[list[Candidate]];
\* NoAttr stands for a result object that has no candidates attribute at all.
Response ==
    {[candidates |-> c] : c \in {NoAttr, PyNone, PyList(<<>>)} \cup {PyList(<<k>>) : k \in Candidate}}

\* LLMResponse as the caller hands it over: the attribute is not set yet, or
\* holds the value the host's class gives it.
LLMResponse == {[reasoning_content |-> r] : r \in {NoAttr, PyStr("")}}

Ok(v) == [exc |-> "none", val |-> v]
Raise(e) == [exc |-> e, val |-> PyNone]

\* result.candidates[0].content.parts, with the exception each step raises.
AccessParts(res) ==
    IF ~HasAttr(res.candidates) THEN Raise("AttributeError")
    ELSE IF res.candidates.t = "None" THEN Raise("TypeError")
    ELSE IF Len(res.candidates.v) = 0 THEN Raise("IndexError")
    ELSE LET content == res.candidates.v[1].content
         IN IF content.t = "None" THEN Raise("AttributeError")
            ELSE Ok(content.parts)

\* hasattr(part, "thought") and part.thought and part.text
IsThoughtPart_TextOnly(part) ==
    HasAttr(part.thought) /\ Truthy(part.text)

IsThoughtPart(part) ==
    HasAttr(part.thought) /\ Truthy(part.thought) /\ Truthy(part.text)

\* The for loop: thoughts go to thinking_text, the rest to final_parts.
RECURSIVE FilterLoop(_, _, _, _)
FilterLoop(parts, i, thinking_text, final_parts) ==
    IF i > Len(parts)
    THEN [thinking_text |-> thinking_text, final_parts |-> final_parts]
    ELSE IF IsThoughtPart(parts[i])
         THEN FilterLoop(parts, i + 1, Append(thinking_text, parts[i].text.v), final_parts)
         ELSE FilterLoop(parts, i + 1, thinking_text, Append(final_parts, parts[i]))

\* result.candidates[0].content.parts[:] = final_parts
SetParts(res, final_parts) ==
    [res EXCEPT !.candidates.v[1].content.parts.v = final_parts]

\* The body of the try block.
TryBlock(res) ==
    LET access == AccessParts(res)
    IN IF access.exc # "none"
       THEN [exc |-> access.exc, thinking_text |-> <<>>, result |-> res]
       ELSE IF access.val.t = "None"
       THEN [exc |-> "TypeError", thinking_text |-> <<>>, result |-> res]
       ELSE LET loop == FilterLoop(access.val.v, 1, <<>>, <<>>)
            IN [exc |-> "none", thinking_text |-> loop.thinking_text,
                result |-> SetParts(res, loop.final_parts)]

\* except (IndexError, AttributeError): pass
Caught(exc) == exc \in {"IndexError", "AttributeError"}

\* "\n\n".join(thinking_text)
JoinThoughts_NoSeparator(thinking_text) ==
    LET RECURSIVE J(_)
        J(i) == IF i > Len(thinking_text) THEN "" ELSE thinking_text[i] \o J(i + 1)
    IN J(1)

JoinThoughts(thinking_text) ==
    LET RECURSIVE J(_)
        J(i) == IF i > Len(thinking_text) THEN ""
                ELSE IF i = Len(thinking_text) THEN thinking_text[i]
                ELSE thinking_text[i] \o "\n\n" \o J(i + 1)
    IN J(1)

\* if thinking_text: setattr(llm_response, "reasoning_content", ...)
AttachReasoning_Always(llm, thinking_text) ==
    [llm EXCEPT !.reasoning_content = PyStr(JoinThoughts(thinking_text))]

AttachReasoning(llm, thinking_text) ==
    IF thinking_text # <<>>
    THEN [llm EXCEPT !.reasoning_content = PyStr(JoinThoughts(thinking_text))]
    ELSE llm

\* The genuine ProviderGoogleGenAI._process_content_parts, which is the host's
\* code: all that matters here is what it is handed.
OriginalProcessContentParts(res, llm) == [t |-> "MessageChain", of |-> res]

\* One call of the patched method: what it leaves in result and llm_response,
\* whether it raised, and what it handed to the original.
PatchedProcessContentParts(res, llm) ==
    LET try == TryBlock(res)
    IN IF try.exc # "none" /\ ~Caught(try.exc)
       THEN [raised |-> try.exc, result |-> try.result, llm |-> llm,
             attached |-> NoAttr, delegated |-> FALSE,
             passed_result |-> PyNone, passed_llm |-> PyNone, ret |-> PyNone]
       ELSE LET llm2 == AttachReasoning(llm, try.thinking_text)
            IN [raised |-> "none", result |-> try.result, llm |-> llm2,
                attached |-> IF llm2 = llm /\ try.thinking_text = <<>>
                             THEN NoAttr ELSE llm2.reasoning_content,
                delegated |-> TRUE,
                passed_result |-> try.result, passed_llm |-> llm2,
                ret |-> OriginalProcessContentParts(try.result, llm2)]

InitPartition ==
    /\ result \in Response
    /\ llm_response \in LLMResponse
    /\ process_calls = <<>>

IdlePartition ==
    /\ result = [candidates |-> PyNone]
    /\ llm_response = [reasoning_content |-> NoAttr]
    /\ process_calls = <<>>

CallPatchedProcessContentParts ==
    /\ Len(process_calls) < MaxProcessCalls
    /\ LET out == PatchedProcessContentParts(result, llm_response)
       IN /\ result' = out.result
          /\ llm_response' = out.llm
          /\ process_calls' = Append(process_calls,
                [before |-> result, llm_before |-> llm_response,
                 after |-> out.result, llm_after |-> out.llm,
                 raised |-> out.raised, attached |-> out.attached,
                 delegated |-> out.delegated,
                 passed_result |-> out.passed_result,
                 passed_llm |-> out.passed_llm, ret |-> out.ret])
    /\ UNCHANGED <<augment_vars, lifecycle_vars>>


----------------------------------------------------------------------------
\* Augment: _patched_prepare_query_config.

\* thinking_budget=self.provider_config.get("gm_thinking_budget", 2048)
DefaultThinkingBudget == 2048

\* self.provider_config: a key is missing (NoAttr) or holds a value.
ProviderConfig ==
    [gm_include_thoughts : {NoAttr, PyBool(TRUE), PyBool(FALSE)},
     gm_thinking_budget  : {NoAttr, PyInt(0), PyInt(1024)}]

\* The caller's arguments (*args, **kwargs): what the host asks the original
\* method to build a config from.
PrepareArgs == [temperature : {0, 7}, host_thinking : BOOLEAN]

\* dict.get(key, default)
DictGet(field, default) == IF HasAttr(field) THEN field ELSE default

\* The genuine ProviderGoogleGenAI._prepare_query_config, which is the host's
\* code: it builds a fresh GenerateContentConfig (identity id) from the
\* arguments; some host versions fill thinking_config themselves.
OriginalPrepareQueryConfig(args, id) ==
    [id |-> id,
     temperature |-> args.temperature,
     thinking_config |-> IF args.host_thinking
                         THEN [t |-> "ThinkingConfig", include_thoughts |-> NoAttr,
                               thinking_budget |-> PyInt(0)]
                         ELSE PyNone]

\* types.ThinkingConfig(include_thoughts=True, thinking_budget=budget): the
\* SDK's model raises when its schema has no include_thoughts field.
ThinkingConfig(budget, accepts) ==
    IF accepts
    THEN Ok([t |-> "ThinkingConfig", include_thoughts |-> PyBool(TRUE),
             thinking_budget |-> budget])
    ELSE Raise("ValidationError")

\* self.provider_config.get("gm_include_thoughts", True)
IncludeThoughts(pc) == Truthy(DictGet(pc.gm_include_thoughts, PyBool(TRUE)))

\* self.provider_config.get("gm_thinking_budget", 2048)
ThinkingBudgetOf_OrDefault(pc) ==
    IF HasAttr(pc.gm_thinking_budget) /\ Truthy(pc.gm_thinking_budget)
    THEN pc.gm_thinking_budget ELSE PyInt(DefaultThinkingBudget)

ThinkingBudgetOf(pc) == DictGet(pc.gm_thinking_budget, PyInt(DefaultThinkingBudget))

\* original_config.thinking_config = <the new ThinkingConfig>
SetThinkingConfig_Rebuild(config, tc) ==
    [id |-> config.id + 1, temperature |-> 0, thinking_config |-> tc]

SetThinkingConfig(config, tc) == [config EXCEPT !.thinking_config = tc]

\* One call of the patched method: the arguments the original was called with,
\* the config it produced, and what the patched method returned or raised.
PatchedPrepareQueryConfig(pc, args, accepts, id) ==
    LET original_config == OriginalPrepareQueryConfig(args, id)
    IN IF IncludeThoughts(pc)
       THEN LET tc == ThinkingConfig(ThinkingBudgetOf(pc), accepts)
            IN IF tc.exc # "none"
               THEN [original_args |-> <<args>>, base |-> original_config,
                     raised |-> tc.exc, ret |-> PyNone]
               ELSE [original_args |-> <<args>>, base |-> original_config,
                     raised |-> "none",
                     ret |-> SetThinkingConfig(original_config, tc.val)]
       ELSE [original_args |-> <<args>>, base |-> original_config,
             raised |-> "none", ret |-> original_config]

InitAugment ==
    /\ provider_config \in ProviderConfig
    /\ sdk_accepts \in BOOLEAN
    /\ prepare_calls = <<>>
    /\ next_id = 1

IdleAugment ==
    /\ provider_config = [gm_include_thoughts |-> NoAttr, gm_thinking_budget |-> NoAttr]
    /\ sdk_accepts = TRUE
    /\ prepare_calls = <<>>
    /\ next_id = 1

CallPatchedPrepareQueryConfig ==
    /\ Len(prepare_calls) < MaxPrepareCalls
    /\ \E args \in PrepareArgs :
         LET out == PatchedPrepareQueryConfig(provider_config, args, sdk_accepts, next_id)
         IN prepare_calls' = Append(prepare_calls,
                [args |-> args, original_args |-> out.original_args,
                 base |-> out.base, raised |-> out.raised, ret |-> out.ret])
    /\ next_id' = next_id + 1
    /\ UNCHANGED <<provider_config, sdk_accepts>>
    /\ UNCHANGED <<partition_vars, lifecycle_vars>>

----------------------------------------------------------------------------
\* Lifecycle: GeminiPatcher.__init__ and GeminiPatcher.terminate.

\* What a method slot or a stored original can hold.
Genuine == "genuine"
Patched == "patched"
Unset   == "None"

\* The module as imported: nothing patched, no original stored. provider_ok is
\* FALSE when the import of google.genai.types failed (lines 26-39), a state a
\* loaded module can be in only where annotations are evaluated lazily.
InitLifecycle ==
    /\ cls_prepare = Genuine
    /\ cls_process = Genuine
    /\ orig_prepare = Unset
    /\ orig_process = Unset
    /\ provider_ok \in BOOLEAN
    /\ live = 0
    /\ ops = <<>>
    /\ last_call = [method |-> "none", wrappers |-> 0, reached |-> "none"]

IdleLifecycle ==
    /\ cls_prepare = Genuine
    /\ cls_process = Genuine
    /\ orig_prepare = Unset
    /\ orig_process = Unset
    /\ provider_ok = TRUE
    /\ live = 0
    /\ ops = <<>>
    /\ last_call = [method |-> "none", wrappers |-> 0, reached |-> "none"]

\* GeminiPatcher.__init__
Construct ==
    /\ Len(ops) < MaxOps
    /\ IF ~provider_ok
       THEN UNCHANGED <<cls_prepare, cls_process, orig_prepare, orig_process>>
       ELSE /\ orig_prepare' = cls_prepare
            /\ orig_process' = cls_process
            /\ cls_prepare' = Patched
            /\ cls_process' = Patched
    /\ live' = live + 1
    /\ ops' = Append(ops, "init")
    /\ UNCHANGED <<provider_ok, last_call>>
    /\ UNCHANGED <<partition_vars, augment_vars>>

\* GeminiPatcher.terminate
Terminate ==
    /\ Len(ops) < MaxOps
    /\ live > 0
    /\ IF ~provider_ok \/ orig_prepare = Unset
       THEN UNCHANGED <<cls_prepare, cls_process>>
       ELSE /\ cls_prepare' = orig_prepare
            /\ cls_process' = orig_process
    /\ live' = live - 1
    /\ ops' = Append(ops, "terminate")
    /\ UNCHANGED <<orig_prepare, orig_process, provider_ok, last_call>>
    /\ UNCHANGED <<partition_vars, augment_vars>>

\* A call through a method slot of the class: a genuine slot runs the genuine
\* method; a patched slot runs the wrapper, which calls the stored original,
\* and a stored original that is the wrapper calls itself without end.
Delegate(slot, original) ==
    IF slot = Genuine THEN [wrappers |-> 0, reached |-> "genuine"]
    ELSE IF original = Genuine THEN [wrappers |-> 1, reached |-> "genuine"]
    ELSE IF original = Patched THEN [wrappers |-> 1, reached |-> "RecursionError"]
    ELSE [wrappers |-> 1, reached |-> "TypeError"]

\* The host calls provider._prepare_query_config(...)
CallPrepareQueryConfig ==
    /\ Len(ops) < MaxOps
    /\ LET d == Delegate(cls_prepare, orig_prepare)
       IN last_call' = [method |-> "_prepare_query_config",
                        wrappers |-> d.wrappers, reached |-> d.reached]
    /\ ops' = Append(ops, "prepare")
    /\ UNCHANGED <<cls_prepare, cls_process, orig_prepare, orig_process, provider_ok, live>>
    /\ UNCHANGED <<partition_vars, augment_vars>>

\* The host calls ProviderGoogleGenAI._process_content_parts(...)
CallProcessContentParts ==
    /\ Len(ops) < MaxOps
    /\ LET d == Delegate(cls_process, orig_process)
       IN last_call' = [method |-> "_process_content_parts",
                        wrappers |-> d.wrappers, reached |-> d.reached]
    /\ ops' = Append(ops, "process")
    /\ UNCHANGED <<cls_prepare, cls_process, orig_prepare, orig_process, provider_ok, live>>
    /\ UNCHANGED <<partition_vars, augment_vars>>

----------------------------------------------------------------------------
\* Specifications.

StartPartition == InitPartition /\ IdleAugment /\ IdleLifecycle
NextPartition == CallPatchedProcessContentParts
SpecPartition == StartPartition /\ [][NextPartition]_vars

StartAugment == IdlePartition /\ InitAugment /\ IdleLifecycle
NextAugment == CallPatchedPrepareQueryConfig
SpecAugment == StartAugment /\ [][NextAugment]_vars

NextLifecycle ==
    \/ Construct
    \/ Terminate
    \/ CallPrepareQueryConfig
    \/ CallProcessContentParts
StartLifecycle == IdlePartition /\ IdleAugment /\ InitLifecycle
SpecLifecycle == StartLifecycle /\ [][NextLifecycle]_vars


----------------------------------------------------------------------------
\* Vocabulary of the claims, stated on the data alone.

\* candidates[0].content.parts is a list of parts.
WellFormed(res) ==
    /\ res.candidates.t = "list"
    /\ Len(res.candidates.v) > 0
    /\ res.candidates.v[1].content.t = "Content"
    /\ res.candidates.v[1].content.parts.t = "list"

PartsOf(res) == res.candidates.v[1].content.parts.v

\* The thought flag is truthy and the text is non-empty.
ThoughtWithText(p) ==
    /\ p.thought = PyBool(TRUE)
    /\ p.text.t = "str"
    /\ p.text.v # ""

KeptPart(p) == ~ThoughtWithText(p)

\* The texts of the thought parts of a response, in part order.
ThoughtTexts(res) ==
    IF WellFormed(res)
    THEN LET th == SelectSeq(PartsOf(res), ThoughtWithText)
         IN [i \in 1..Len(th) |-> th[i].text.v]
    ELSE <<>>

\* Texts joined with a blank line.
RECURSIVE BlankLineJoin(_)
BlankLineJoin(texts) ==
    IF texts = <<>> THEN ""
    ELSE IF Len(texts) = 1 THEN texts[1]
    ELSE texts[1] \o "\n\n" \o BlankLineJoin(Tail(texts))

\* The option is true or missing.
ThoughtsRequested(pc) ==
    pc.gm_include_thoughts \in {NoAttr, PyBool(TRUE)}

\* The budget the options configure, 2048 when they configure none.
ConfiguredBudget(pc) ==
    IF pc.gm_thinking_budget = NoAttr THEN PyInt(2048) ELSE pc.gm_thinking_budget

----------------------------------------------------------------------------
\* Claims about partition (SpecPartition).

\* C1: for every well-formed response, the parts handed to the original method
\* are exactly the parts that are not (thought flag truthy and text non-empty),
\* in their original order; a part flagged thought with empty or None text is
\* kept.
C1_FilteredPartsHandedOn ==
    \A i \in DOMAIN process_calls :
        LET c == process_calls[i]
        IN WellFormed(c.before) =>
             /\ c.raised = "none"
             /\ c.delegated
             /\ WellFormed(c.passed_result)
             /\ PartsOf(c.passed_result) = SelectSeq(PartsOf(c.before), KeptPart)
             /\ c.after = c.passed_result

\* A response that mixes a thought with text, a thought flag on an empty text
\* and a thought flag on a None text was filtered: only the first was removed.
C1_Witness ==
    \E i \in DOMAIN process_calls :
        LET c == process_calls[i]
        IN /\ WellFormed(c.before)
           /\ Len(PartsOf(c.before)) = 3
           /\ ThoughtWithText(PartsOf(c.before)[1])
           /\ PartsOf(c.before)[2] = [thought |-> PyBool(TRUE), text |-> PyStr("")]
           /\ PartsOf(c.before)[3] = [thought |-> PyBool(TRUE), text |-> PyNone]
           /\ c.delegated
           /\ Len(PartsOf(c.passed_result)) = 2

\* C2: the reasoning_content a call attaches is the texts of the thought parts,
\* in part order, joined with "\n\n"; it is attached only when there is at least
\* one such part, and otherwise the call leaves llm_response as it was; when
\* every part is a thought with text, no part remains.
C2_ReasoningIsJoinedThoughts ==
    \A i \in DOMAIN process_calls :
        LET c == process_calls[i]
            texts == ThoughtTexts(c.before)
        IN /\ texts # <<>> =>
                /\ c.attached = PyStr(BlankLineJoin(texts))
                /\ c.llm_after.reasoning_content = PyStr(BlankLineJoin(texts))
                /\ c.passed_llm = c.llm_after
           /\ texts = <<>> =>
                /\ c.attached = NoAttr
                /\ c.llm_after = c.llm_before
           /\ (WellFormed(c.before) /\ Len(texts) = Len(PartsOf(c.before))) =>
                PartsOf(c.after) = <<>>

\* Two thoughts were joined in part order, and nothing else remained.
C2_Witness ==
    \E i \in DOMAIN process_calls :
        LET c == process_calls[i]
        IN /\ ThoughtTexts(c.before) = <<"b", "a">>
           /\ Len(PartsOf(c.before)) = 2
           /\ c.attached = PyStr("b\n\na")
           /\ PartsOf(c.after) = <<>>

\* C3: for every malformed or absent response shape (no candidates attribute,
\* candidates None, candidates empty, content None, parts None) the call does
\* not raise, leaves the response as it was, attaches no reasoning and passes
\* the unmodified response to the original method.
C3_MalformedIsPassedThrough ==
    \A i \in DOMAIN process_calls :
        LET c == process_calls[i]
        IN ~WellFormed(c.before) =>
             /\ c.raised = "none"
             /\ c.after = c.before
             /\ c.attached = NoAttr
             /\ c.llm_after = c.llm_before
             /\ c.delegated
             /\ c.passed_result = c.before

\* C4: a call on a response without thought parts leaves the response unchanged
\* and attaches no reasoning; hence a second call on a response leaves what the
\* first call left and attaches nothing.
C4_Idempotent ==
    /\ \A i \in DOMAIN process_calls :
          LET c == process_calls[i]
          IN ThoughtTexts(c.before) = <<>> =>
               /\ c.after = c.before
               /\ c.attached = NoAttr
               /\ c.llm_after = c.llm_before
    /\ \A i \in DOMAIN process_calls :
          i > 1 =>
            /\ process_calls[i].before = process_calls[i - 1].after
            /\ process_calls[i].after = process_calls[i - 1].after
            /\ process_calls[i].attached = NoAttr

\* The first call extracted a thought and kept a part, the second call ran on
\* what the first left.
C4_Witness ==
    /\ Len(process_calls) = 2
    /\ process_calls[1].attached = PyStr("a")
    /\ process_calls[1].after # process_calls[1].before
    /\ Len(PartsOf(process_calls[1].after)) = 2
    /\ process_calls[2].delegated
    /\ process_calls[2].after = process_calls[1].after

----------------------------------------------------------------------------
\* Claims about augment (SpecAugment).

\* C5: with gm_include_thoughts false the returned config keeps the thinking
\* config the original produced; with it true or missing the call returns when
\* the SDK accepts the fields, and a returned config's thinking config is
\* {include_thoughts: True, thinking_budget: B}, B the configured budget or 2048.
C5_ThinkingConfigWhenRequested ==
    \A i \in DOMAIN prepare_calls :
        LET c == prepare_calls[i]
        IN /\ ~ThoughtsRequested(provider_config) =>
                /\ c.raised = "none"
                /\ c.ret.thinking_config = c.base.thinking_config
           /\ (ThoughtsRequested(provider_config) /\ sdk_accepts) => c.raised = "none"
           /\ (ThoughtsRequested(provider_config) /\ c.raised = "none") =>
                c.ret.thinking_config =
                    [t |-> "ThinkingConfig", include_thoughts |-> PyBool(TRUE),
                     thinking_budget |-> ConfiguredBudget(provider_config)]

\* A call with the budget configured as 0 returned a config that carries 0,
\* replacing the thinking config the original had produced.
C5_Witness ==
    \E i \in DOMAIN prepare_calls :
        LET c == prepare_calls[i]
        IN /\ provider_config.gm_include_thoughts = NoAttr
           /\ provider_config.gm_thinking_budget = PyInt(0)
           /\ c.raised = "none"
           /\ c.base.thinking_config # PyNone
           /\ c.ret.thinking_config.thinking_budget = PyInt(0)
           /\ c.ret.thinking_config.include_thoughts = PyBool(TRUE)

\* C6: when the SDK's schema rejects include_thoughts, the call does not fail
\* and returns a config whose thinking config is {thinking_budget: B} alone.
C6_FallsBackToBudgetOnly ==
    \A i \in DOMAIN prepare_calls :
        LET c == prepare_calls[i]
        IN (ThoughtsRequested(provider_config) /\ ~sdk_accepts) =>
             /\ c.raised = "none"
             /\ c.ret.thinking_config =
                    [t |-> "ThinkingConfig", include_thoughts |-> NoAttr,
                     thinking_budget |-> ConfiguredBudget(provider_config)]

\* C7: every call calls the original exactly once with the caller's arguments,
\* and a returned config is the object the original produced with every field
\* but thinking_config as the original left it.
C7_OnlyThinkingConfigChanges ==
    \A i \in DOMAIN prepare_calls :
        LET c == prepare_calls[i]
        IN /\ c.original_args = <<c.args>>
           /\ c.raised = "none" =>
                /\ c.ret.id = c.base.id
                /\ [c.ret EXCEPT !.thinking_config = c.base.thinking_config] = c.base

\* A call that injected a thinking config returned the original's object with
\* its temperature of 7.
C7_Witness ==
    \E i \in DOMAIN prepare_calls :
        LET c == prepare_calls[i]
        IN /\ c.raised = "none"
           /\ c.ret.thinking_config # c.base.thinking_config
           /\ c.base.temperature = 7
           /\ c.ret.temperature = 7
           /\ c.ret.id = c.base.id

----------------------------------------------------------------------------
\* Claims about the lifecycle (SpecLifecycle).

\* C9: after any sequence of constructions and terminations that ends with a
\* terminate, with the provider class available, both method slots hold the
\* genuine implementations.
C9_TerminateRestoresGenuine ==
    (provider_ok /\ ops # <<>> /\ ops[Len(ops)] = "terminate") =>
        /\ cls_prepare = Genuine
        /\ cls_process = Genuine

\* C10: the stored originals are never the patched wrappers, and a call
\* through the class always reaches the genuine implementation.
C10_OriginalsNeverPatched ==
    /\ orig_prepare # Patched
    /\ orig_process # Patched
    /\ last_call.reached \in {"none", "genuine"}


====
